---- MODULE Spec2Model ----
(***************************************************************************)
(* Ollama chat assistant (src/main.py): the ChatManager methods            *)
(* generate_response, save_chat_history and load_chat_histories, and the   *)
(* Streamlit script main() run once per user interaction.                  *)
(*                                                                         *)
(* Text (a Python str) is a sequence of one-character strings, so that     *)
(* formatting, JSON encoding and JSON parsing are computed character by    *)
(* character.  A dict is a function from key text to value.                *)
(***************************************************************************)
EXTENDS Integers, Sequences, FiniteSets, TLC

(***************************************************************************)
(* Bounds of the model.                                                    *)
(***************************************************************************)
MaxTurns == 2
MaxSaves == 2
MaxTicks == 2
FirstSecond == 58

(***************************************************************************)
(* Characters and text.                                                    *)
(***************************************************************************)
NL == "\n"
QUOTE == "\""
BSL == "\\"
SP == " "

Whitespace == {SP, NL, "\t", "\r"}

Digits == <<"0", "1", "2", "3", "4", "5", "6", "7", "8", "9">>

\* The characters that occur in file names, in ascending code point order.
CharOrder ==
    <<".", "/">> \o Digits \o
    <<"_", "a", "b", "c", "d", "e", "f", "g", "h", "i", "j", "k", "l", "m",
      "n", "o", "p", "q", "r", "s", "t", "u", "v", "w", "x", "y", "z">>

Ord(c) == CHOOSE i \in 1..Len(CharOrder) : CharOrder[i] = c

Min(S) == CHOOSE m \in S : \A n \in S : m <= n

\* Python's a < b on str: by code point at the first position where they
\* differ; a proper prefix is less.
StrLess(a, b) ==
    LET n == IF Len(a) < Len(b) THEN Len(a) ELSE Len(b)
        differ == {i \in 1..n : a[i] # b[i]}
    IN IF differ = {} THEN Len(a) < Len(b)
       ELSE Ord(a[Min(differ)]) < Ord(b[Min(differ)])

RECURSIVE Join(_, _)
\* sep.join(parts)
Join(sep, parts) ==
    IF parts = <<>> THEN <<>>
    ELSE IF Len(parts) = 1 THEN parts[1]
    ELSE parts[1] \o sep \o Join(sep, Tail(parts))

endswith(s, suffix) ==
    /\ Len(s) >= Len(suffix)
    /\ SubSeq(s, Len(s) - Len(suffix) + 1, Len(s)) = suffix

IsPrefix(s, t) == Len(s) <= Len(t) /\ SubSeq(t, 1, Len(s)) = s

(***************************************************************************)
(* Messages: {"role": ..., "content": ...}.                                *)
(***************************************************************************)
KRole == <<"r", "o", "l", "e">>
KContent == <<"c", "o", "n", "t", "e", "n", "t">>
RUser == <<"u", "s", "e", "r">>
RAssistant == <<"a", "s", "s", "i", "s", "t", "a", "n", "t">>

Message(role, content) == (KRole :> role) @@ (KContent :> content)

(***************************************************************************)
(* json.dump(chat_history, f, indent=4): the text written to the file.     *)
(***************************************************************************)
\* A variant that writes every character as it is.
EscapeCharPlain(c) == <<c>>

EscapeChar(c) ==
    IF c = QUOTE THEN <<BSL, QUOTE>>
    ELSE IF c = BSL THEN <<BSL, BSL>>
    ELSE IF c = NL THEN <<BSL, "n">>
    ELSE IF c = "\t" THEN <<BSL, "t">>
    ELSE IF c = "\r" THEN <<BSL, "r">>
    ELSE <<c>>

RECURSIVE EscapeChars(_)
\* The body of a JSON string literal (ensure_ascii encoder): every character
\* replaced by its escape, the halves of the text done one after the other.
EscapeChars(s) ==
    IF s = <<>> THEN <<>>
    ELSE IF Len(s) = 1 THEN EscapeChar(s[1])
    ELSE EscapeChars(SubSeq(s, 1, Len(s) \div 2))
            \o EscapeChars(SubSeq(s, Len(s) \div 2 + 1, Len(s)))

EncodeString(s) == <<QUOTE>> \o EscapeChars(s) \o <<QUOTE>>

Indent(n) == [i \in 1..n |-> SP]

\* One message dict at nesting level 1; keys in insertion order role, content.
DumpMessage(m) ==
    <<"{", NL>> \o Indent(8) \o EncodeString(KRole) \o <<":", SP>>
        \o EncodeString(m[KRole]) \o <<",", NL>>
        \o Indent(8) \o EncodeString(KContent) \o <<":", SP>>
        \o EncodeString(m[KContent]) \o <<NL>>
        \o Indent(4) \o <<"}">>

json_dumps(chat_history) ==
    IF chat_history = <<>> THEN <<"[", "]">>
    ELSE <<"[", NL>> \o Indent(4)
         \o Join(<<",", NL>> \o Indent(4),
                 [i \in 1..Len(chat_history) |-> DumpMessage(chat_history[i])])
         \o <<NL, "]">>

(***************************************************************************)
(* json.load(f): parse the text of a file.  A result is                    *)
(* [ok |-> TRUE, val |-> v, end |-> next index] or Fail (JSONDecodeError). *)
(* Values: strings, arrays and objects.                                    *)
(***************************************************************************)
Fail == [ok |-> FALSE]
Parsed(v, e) == [ok |-> TRUE, val |-> v, end |-> e]

RECURSIVE SkipWS(_, _)
SkipWS(t, i) ==
    IF i <= Len(t) /\ t[i] \in Whitespace THEN SkipWS(t, i + 1) ELSE i

Unescape(e) ==
    IF e = "n" THEN NL
    ELSE IF e = "t" THEN "\t"
    ELSE IF e = "r" THEN "\r"
    ELSE e

RECURSIVE ScanString(_, _, _)
\* The scan of a string literal whose opening quote precedes t[i]; acc is the
\* text decoded so far.  Each round takes the chunk of plain characters up to
\* the next terminator: the closing quote, a backslash or a control character.
ScanString(t, i, acc) ==
    LET terminators == {j \in i..Len(t) : t[j] \in {QUOTE, BSL, NL, "\t", "\r"}}
    IN IF terminators = {} THEN Fail
       ELSE LET j == Min(terminators)
                content == acc \o SubSeq(t, i, j - 1)
            IN IF t[j] = QUOTE THEN Parsed(content, j + 1)
               ELSE IF t[j] # BSL THEN Fail
               ELSE IF j + 1 > Len(t) THEN Fail
               ELSE IF t[j + 1] \in {QUOTE, BSL, "/", "n", "t", "r"}
                    THEN ScanString(t, j + 2, Append(content, Unescape(t[j + 1])))
               ELSE Fail

RECURSIVE ParseValue(_, _)
RECURSIVE ArrayItems(_, _, _)
RECURSIVE ObjectItems(_, _, _)

ParseArray(t, i) ==
    LET j == SkipWS(t, i)
    IN IF j <= Len(t) /\ t[j] = "]" THEN Parsed(<<>>, j + 1)
       ELSE ArrayItems(t, j, <<>>)

ParseObject(t, i) ==
    LET j == SkipWS(t, i)
    IN IF j > Len(t) THEN Fail
       ELSE IF t[j] = "}" THEN Parsed(<<>>, j + 1)
       ELSE IF t[j] # QUOTE THEN Fail
       ELSE ObjectItems(t, j, <<>>)

ParseValue(t, i) ==
    IF i > Len(t) THEN Fail
    ELSE IF t[i] = QUOTE THEN ScanString(t, i + 1, <<>>)
    ELSE IF t[i] = "[" THEN ParseArray(t, i + 1)
    ELSE IF t[i] = "{" THEN ParseObject(t, i + 1)
    ELSE Fail

ArrayItems(t, j, acc) ==
    LET v == ParseValue(t, j)
    IN IF ~v.ok THEN Fail
       ELSE LET k == SkipWS(t, v.end)
            IN IF k > Len(t) THEN Fail
               ELSE IF t[k] = "]" THEN Parsed(Append(acc, v.val), k + 1)
               ELSE IF t[k] = ","
                    THEN ArrayItems(t, SkipWS(t, k + 1), Append(acc, v.val))
               ELSE Fail

\* t[j] is the opening quote of a key; a repeated key keeps the last value.
ObjectItems(t, j, acc) ==
    LET key == ScanString(t, j + 1, <<>>)
    IN IF ~key.ok THEN Fail
       ELSE LET k == SkipWS(t, key.end)
            IN IF k > Len(t) \/ t[k] # ":" THEN Fail
               ELSE LET v == ParseValue(t, SkipWS(t, k + 1))
                    IN IF ~v.ok THEN Fail
                       ELSE LET k3 == SkipWS(t, v.end)
                                d == (key.val :> v.val) @@ acc
                            IN IF k3 > Len(t) THEN Fail
                               ELSE IF t[k3] = "}" THEN Parsed(d, k3 + 1)
                               ELSE IF t[k3] = "," THEN
                                   LET k4 == SkipWS(t, k3 + 1)
                                   IN IF k4 <= Len(t) /\ t[k4] = QUOTE
                                      THEN ObjectItems(t, k4, d)
                                      ELSE Fail
                               ELSE Fail

\* JSONDecoder.decode: one value, then only whitespace up to the end.
json_loads(t) ==
    LET v == ParseValue(t, SkipWS(t, 1))
    IN IF ~v.ok THEN Fail
       ELSE IF SkipWS(t, v.end) # Len(t) + 1 THEN Fail
       ELSE v

(***************************************************************************)
(* Optional values (None or a value) and the outcome of a call.            *)
(***************************************************************************)
None == [some |-> FALSE]
Some(v) == [some |-> TRUE, val |-> v]

Raised == [raised |-> TRUE]
Returned(v) == [raised |-> FALSE, value |-> v]

(***************************************************************************)
(* The file system: a function from path to the text of the file.          *)
(***************************************************************************)
CHAT_HISTORY_DIR ==
    <<"c", "h", "a", "t", "_", "h", "i", "s", "t", "o", "r", "i", "e", "s">>

path_join(dir, name) == dir \o <<"/">> \o name

\* The names os.listdir(dir) yields, as a set; their order is not specified.
listdir(files, dir) ==
    {SubSeq(p, Len(dir) + 2, Len(p)) :
        p \in {q \in DOMAIN files : IsPrefix(dir \o <<"/">>, q)}}

RECURSIVE Ascending(_)
Ascending(S) ==
    IF S = {} THEN <<>>
    ELSE LET least == CHOOSE a \in S : \A b \in S : a = b \/ StrLess(a, b)
         IN <<least>> \o Ascending(S \ {least})

\* os.listdir returns the names in an order the file system chooses.  The
\* orders tried: the ascending and the descending order of the names, each
\* started at any of its positions (every order, for up to three names).
Orders(S) ==
    LET n == Cardinality(S)
        asc == Ascending(S)
    IN {[i \in 1..n |-> asc[((i + k - 1) % n) + 1]] : k \in 0..(n - 1)}
           \cup {[i \in 1..n |-> asc[n - ((i + k - 1) % n)]] : k \in 0..(n - 1)}

\* open(path, 'w') and a write of text: the file is created or replaced.
write_file(files, path, text) ==
    [p \in DOMAIN files \cup {path} |-> IF p = path THEN text ELSE files[p]]

(***************************************************************************)
(* datetime.now().strftime("%Y%m%d_%H%M%S").  The clock is the local date, *)
(* as its eight digits, and the seconds since midnight.                    *)
(***************************************************************************)
Pad2(n) == <<Digits[((n \div 10) % 10) + 1], Digits[(n % 10) + 1]>>

\* A variant with the format "%Y%m%d_%H%M": minute resolution.
strftime_minutes(t) ==
    t.date \o <<"_">> \o Pad2(t.secs \div 3600) \o Pad2((t.secs \div 60) % 60)

strftime(t) ==
    t.date \o <<"_">> \o Pad2(t.secs \div 3600) \o Pad2((t.secs \div 60) % 60)
        \o Pad2(t.secs % 60)

(***************************************************************************)
(* ChatManager                                                             *)
(***************************************************************************)
Fallback ==
    <<"I", "'", "m", SP, "s", "o", "r", "r", "y", ",", SP, "b", "u", "t",
      SP, "I", SP, "e", "n", "c", "o", "u", "n", "t", "e", "r", "e", "d",
      SP, "a", "n", SP, "e", "r", "r", "o", "r", SP, "w", "h", "i", "l",
      "e", SP, "p", "r", "o", "c", "e", "s", "s", "i", "n", "g", SP, "y",
      "o", "u", "r", SP, "r", "e", "q", "u", "e", "s", "t", ".">>

\* A variant without the try/except: the error of the model call propagates.
generate_response_uncaught(context, user_input, outcome) ==
    IF outcome.raises
    THEN [raised |-> TRUE, value |-> <<>>, st_error |-> FALSE]
    ELSE [raised |-> FALSE, value |-> outcome.text, st_error |-> FALSE]

\* outcome is what self.chain.invoke does: it returns text or raises.
generate_response(context, user_input, outcome) ==
    IF outcome.raises
    THEN [raised |-> FALSE, value |-> Fallback, st_error |-> TRUE]
    ELSE [raised |-> FALSE, value |-> outcome.text, st_error |-> FALSE]

\* A variant that leaves the timestamp out of the name.
chat_file_name_fixed(timestamp) ==
    <<"c", "h", "a", "t", ".", "j", "s", "o", "n">>

chat_file_name(timestamp) ==
    <<"c", "h", "a", "t", "_">> \o timestamp \o <<".", "j", "s", "o", "n">>

\* Returns the file system after the call and the returned filename.
save_chat_history(files, t, chat_history) ==
    LET timestamp == strftime(t)
        filename == path_join(CHAT_HISTORY_DIR, chat_file_name(timestamp))
    IN [files |-> write_file(files, filename, json_dumps(chat_history)),
        ret |-> filename]

RECURSIVE InsertAsc(_, _)
\* A variant that sorts without reverse=True: ascending.
InsertAsc(sorted, e) ==
    IF sorted = <<>> THEN <<e>>
    ELSE IF StrLess(e.filename, Head(sorted).filename) THEN <<e>> \o sorted
    ELSE <<Head(sorted)>> \o InsertAsc(Tail(sorted), e)

RECURSIVE InsertDesc(_, _)
\* e goes after every entry whose filename is not less than its own.
InsertDesc(sorted, e) ==
    IF sorted = <<>> THEN <<e>>
    ELSE IF StrLess(Head(sorted).filename, e.filename) THEN <<e>> \o sorted
    ELSE <<Head(sorted)>> \o InsertDesc(Tail(sorted), e)

RECURSIVE sorted_by_filename_reverse(_)
\* sorted(chat_histories, key=lambda x: x['filename'], reverse=True), stable.
sorted_by_filename_reverse(entries) ==
    IF entries = <<>> THEN <<>>
    ELSE InsertDesc(sorted_by_filename_reverse(SubSeq(entries, 1, Len(entries) - 1)),
                    entries[Len(entries)])

RECURSIVE load_loop_skipping(_, _, _)
\* A variant that isolates errors per file: a malformed file is skipped.
load_loop_skipping(files, names, acc) ==
    IF names = <<>> THEN Returned(acc)
    ELSE LET filename == Head(names)
         IN IF endswith(filename, <<".", "j", "s", "o", "n">>)
            THEN LET data == json_loads(files[path_join(CHAT_HISTORY_DIR, filename)])
                 IN load_loop_skipping(files, Tail(names),
                       IF data.ok
                       THEN Append(acc, [filename |-> filename, data |-> data.val])
                       ELSE acc)
            ELSE load_loop_skipping(files, Tail(names), acc)

RECURSIVE load_loop(_, _, _)
\* The for loop over os.listdir: names is what is left, acc is chat_histories.
load_loop(files, names, acc) ==
    IF names = <<>> THEN Returned(acc)
    ELSE LET filename == Head(names)
         IN IF endswith(filename, <<".", "j", "s", "o", "n">>)
            THEN LET data == json_loads(files[path_join(CHAT_HISTORY_DIR, filename)])
                 IN IF ~data.ok THEN Raised
                    ELSE load_loop(files, Tail(names),
                             Append(acc, [filename |-> filename, data |-> data.val]))
            ELSE load_loop(files, Tail(names), acc)

\* order is the sequence of names os.listdir returned.
load_chat_histories(files, order) ==
    LET loaded == load_loop(files, order, <<>>)
    IN IF loaded.raised THEN Raised
       ELSE Returned(sorted_by_filename_reverse(loaded.value))

(***************************************************************************)
(* State.  session_state, view_mode and selected_chat are Streamlit's      *)
(* per-session state; files and now are the environment; histories is the  *)
(* value load_chat_histories last returned; screen and widgets are what    *)
(* the last script run rendered.  call, saved, turns and event record what *)
(* happened: the last generate_response call, the save_chat_history calls, *)
(* the number of prompts submitted and the last interaction.               *)
(***************************************************************************)
VARIABLES session_state, view_mode, files, now, histories, selected_chat,
          screen, widgets, call, saved, turns, event

vars == <<session_state, view_mode, files, now, histories, selected_chat,
          screen, widgets, call, saved, turns, event>>

EmptyState == [k \in {} |-> <<>>]

Messages ==
    IF session_state = EmptyState THEN <<>> ELSE session_state.messages

Line(kind, text) == [kind |-> kind, text |-> text]

(***************************************************************************)
(* main(): the steps of one script run.                                    *)
(***************************************************************************)
\* A variant without the "not in" test: the list is reset on every run.
init_messages_always(state) == <<>>

\* if 'messages' not in st.session_state: st.session_state.messages = []
init_messages(state) ==
    IF state = EmptyState THEN <<>> ELSE state.messages

\* A variant that inserts at the front: messages.insert(0, message).
insert_message_first(messages, message) == <<message>> \o messages

\* st.session_state.messages.append(message)
append_message(messages, message) == Append(messages, message)

context_line(msg) ==
    IF msg[KRole] = RUser
    THEN <<"U", "s", "e", "r", ":", SP>> \o msg[KContent]
    ELSE <<"A", "I", ":", SP>> \o msg[KContent]

\* A variant that iterates over reversed(st.session_state.messages).
build_context_reversed(messages) ==
    Join(<<NL>>, [i \in 1..Len(messages) |->
                     context_line(messages[Len(messages) + 1 - i])])

\* "\n".join([... for msg in st.session_state.messages])
build_context(messages) ==
    Join(<<NL>>, [i \in 1..Len(messages) |-> context_line(messages[i])])

chat_line(msg) ==
    Line(IF msg[KRole] = RUser THEN "chat_user" ELSE "chat_assistant", msg[KContent])

\* st.sidebar.selectbox: the user's choice while it is an option, else the first.
selectbox(options, choice) ==
    IF choice.some /\ \E i \in DOMAIN options : options[i] = choice.val
    THEN choice.val
    ELSE options[1]

\* next(h['data'] for h in histories if h['filename'] == selected_chat)
selected_data(hs, selected) ==
    hs[CHOOSE i \in DOMAIN hs :
          /\ hs[i].filename = selected
          /\ \A j \in 1..(i - 1) : hs[j].filename # selected].data

RECURSIVE previous_lines(_)
\* The loop writing "**You:** ..." and "**AI:** ..." for the selected chat.
previous_lines(data) ==
    IF data = <<>> THEN <<>>
    ELSE LET entry == Head(data)
             role == IF KRole \in DOMAIN entry THEN Some(entry[KRole]) ELSE None
             line == IF role.some /\ role.val = RUser
                         THEN <<Line("You", entry[KContent])>>
                     ELSE IF role.some /\ role.val = RAssistant
                         THEN <<Line("AI", entry[KContent])>>
                     ELSE <<>>
         IN line \o previous_lines(Tail(data))

\* The "Previous Chats" branch.
PreviousChats(choice, order) ==
    \E hs \in {load_chat_histories(files, order)} :
       /\ histories' = Some(hs)
       /\ call' = None
       /\ UNCHANGED <<session_state, files, saved>>
       /\ IF hs.raised
          THEN /\ selected_chat' = None
               /\ screen' = <<Line("exception", <<>>)>>
               /\ widgets' = {"radio"}
          ELSE IF hs.value # <<>>
          THEN \E selected \in
                    {selectbox([i \in DOMAIN hs.value |-> hs.value[i].filename],
                               choice)} :
                  /\ selected_chat' = Some(selected)
                  /\ screen' = <<Line("header", selected)>>
                                 \o previous_lines(selected_data(hs.value, selected))
                  /\ widgets' = {"radio", "selectbox"}
          ELSE /\ selected_chat' = None
               /\ screen' = <<Line("sidebar", <<>>)>>
               /\ widgets' = {"radio"}

\* The rest of a turn once generate_response has returned: the assistant
\* message, and the save button with the value st.button returns.
AfterResponse(messages1, shown1, response, clicked) ==
    \E messages2 \in
         {append_message(messages1, Message(RAssistant, response.value))} :
       /\ session_state' = [messages |-> messages2]
       /\ widgets' = {"radio", "chat_input", "button"}
       /\ IF clicked
          THEN \E s \in {save_chat_history(files, now, messages2)} :
                  /\ files' = s.files
                  /\ saved' = Append(saved, [time |-> now, chat |-> messages2,
                                             ret |-> s.ret])
                  /\ screen' = shown1
                        \o <<chat_line(messages2[Len(messages2)]),
                             Line("success", s.ret)>>
          ELSE /\ screen' = Append(shown1, chat_line(messages2[Len(messages2)]))
               /\ UNCHANGED <<files, saved>>

\* A turn: the prompt is appended, the context built, the model asked.
Turn(messages0, shown0, prompt, clicked, outcome) ==
    \E messages1 \in {append_message(messages0, Message(RUser, prompt))} :
    \E context \in {build_context(messages1)} :
    \E response \in {generate_response(context, prompt, outcome)} :
    \E shown1 \in {Append(shown0, chat_line(messages1[Len(messages1)]))
                     \o (IF ~response.raised /\ response.st_error
                         THEN <<Line("error", <<>>)>> ELSE <<>>)} :
       /\ call' = Some([context |-> context, question |-> prompt,
                        outcome |-> outcome, raised |-> response.raised,
                        value |-> IF response.raised THEN <<>> ELSE response.value])
       /\ IF response.raised
          THEN /\ session_state' = [messages |-> messages1]
               /\ screen' = Append(shown1, Line("exception", <<>>))
               /\ widgets' = {"radio", "chat_input"}
               /\ UNCHANGED <<files, saved>>
          ELSE AfterResponse(messages1, shown1, response, clicked)

\* The "Current Chat" branch.  prompt is the value of st.chat_input and
\* clicked the value st.button returns when the run reaches it.
CurrentChat(prompt, clicked, outcome) ==
    \E messages0 \in {init_messages(session_state)} :
    \E shown0 \in {[i \in DOMAIN messages0 |-> chat_line(messages0[i])]} :
       /\ histories' = None
       /\ selected_chat' = None
       /\ IF prompt.some /\ prompt.val # <<>>
          THEN Turn(messages0, shown0, prompt.val, clicked, outcome)
          ELSE /\ session_state' = [messages |-> messages0]
               /\ call' = None
               /\ screen' = shown0
               /\ widgets' = {"radio", "chat_input"}
               /\ UNCHANGED <<files, saved>>

main(view, prompt, clicked, choice, outcome, order) ==
    /\ view_mode' = view
    /\ now' = now
    /\ IF view = "Previous Chats"
       THEN PreviousChats(choice, order)
       ELSE CurrentChat(prompt, clicked, outcome)

(***************************************************************************)
(* Inputs.                                                                 *)
(***************************************************************************)
Prompts == {<<"h", "i">>, <<QUOTE, BSL, "n">>}
Replies == {<<"y", "o", NL, "}">>, <<>>}
Outcomes == {[raises |-> TRUE]} \cup {[raises |-> FALSE, text |-> r] : r \in Replies}
NoOutcome == [raises |-> FALSE, text |-> <<>>]

Today == <<"2", "0", "2", "4", "0", "1", "0", "1">>
Yesterday == <<"2", "0", "2", "3", "1", "2", "3", "1">>

OldChat1 == <<Message(RUser, <<"h", "i">>), Message(RAssistant, <<"y", "o">>)>>
OldChat2 == <<Message(RUser, <<"a", QUOTE>>), Message(RAssistant, Fallback)>>
OldFile(secs) ==
    path_join(CHAT_HISTORY_DIR,
              chat_file_name(strftime([date |-> Yesterday, secs |-> secs])))

\* Directories the program may find: empty, transcripts of earlier days, a
\* file that is no transcript, a transcript cut short by a crash while written.
DirEmpty == [p \in {} |-> <<>>]
DirOne == write_file(DirEmpty, OldFile(86399), json_dumps(OldChat1))
DirTwo == write_file(DirOne, OldFile(3599), json_dumps(OldChat2))
DirNotes ==
    write_file(DirOne, path_join(CHAT_HISTORY_DIR, <<"n", ".", "t", "x", "t">>),
               <<"h", "i">>)
DirTruncated ==
    write_file(DirTwo, OldFile(60), SubSeq(json_dumps(OldChat1), 1, 40))

(***************************************************************************)
(* Spec: the interactive program.  Each action is one interaction of the   *)
(* user followed by the script run it triggers.                            *)
(***************************************************************************)
Init ==
    /\ session_state = EmptyState
    /\ view_mode = "Current Chat"
    /\ files \in {DirEmpty, DirOne, DirTwo, DirNotes, DirTruncated}
    /\ now = [date |-> Today, secs |-> FirstSecond]
    /\ histories = None
    /\ selected_chat = None
    /\ screen = <<>>
    /\ widgets = {}
    /\ call = None
    /\ saved = <<>>
    /\ turns = 0
    /\ event = "start"

\* The page is opened: the first run, with every widget at its default.
FirstRun ==
    /\ widgets = {}
    /\ main("Current Chat", None, FALSE, None, NoOutcome, <<>>)
    /\ event' = "FirstRun"
    /\ turns' = turns

\* The user picks the other view in the sidebar radio.
ChooseView ==
    /\ "radio" \in widgets
    /\ \E v \in {"Current Chat", "Previous Chats"} \ {view_mode} :
       \E order \in Orders(listdir(files, CHAT_HISTORY_DIR)) :
          main(v, None, FALSE, None, NoOutcome, order)
    /\ event' = "ChooseView"
    /\ turns' = turns

\* The user submits a prompt in the chat input.
SubmitPrompt ==
    /\ "chat_input" \in widgets
    /\ turns < MaxTurns
    /\ \E p \in Prompts : \E outcome \in Outcomes :
          main(view_mode, Some(p), FALSE, None, outcome, <<>>)
    /\ event' = "SubmitPrompt"
    /\ turns' = turns + 1

\* The user clicks "Save Chat History": the run it triggers has the button's
\* value True and no chat input.
ClickSave ==
    /\ "button" \in widgets
    /\ main(view_mode, None, TRUE, None, NoOutcome, <<>>)
    /\ event' = "ClickSave"
    /\ turns' = turns

\* The user picks another file in the "Select a Chat" box.
SelectChat ==
    /\ "selectbox" \in widgets
    /\ \E i \in DOMAIN histories.val.value :
          /\ Some(histories.val.value[i].filename) # selected_chat
          /\ \E order \in Orders(listdir(files, CHAT_HISTORY_DIR)) :
                main(view_mode, None, FALSE,
                     Some(histories.val.value[i].filename), NoOutcome, order)
    /\ event' = "SelectChat"
    /\ turns' = turns

Next == FirstRun \/ ChooseView \/ SubmitPrompt \/ ClickSave \/ SelectChat

Spec == Init /\ [][Next]_vars

(***************************************************************************)
(* Properties of the interactive program (Spec).                           *)
(***************************************************************************)
Alternates(ms) ==
    \A i \in DOMAIN ms : ms[i][KRole] = IF i % 2 = 1 THEN RUser ELSE RAssistant

\* C1: after N completed user turns the Session holds exactly 2N messages,
\* with roles alternating user, assistant, ... starting with user, also when
\* the model call of a turn failed.
C1_TwoMessagesPerTurn ==
    /\ Len(Messages) = 2 * turns
    /\ Alternates(Messages)

\* Two turns are done and the model call of the first one failed.
C1_Witness ==
    /\ turns >= 2
    /\ Len(Messages) >= 4
    /\ Messages[2][KContent] = Fallback
    /\ Messages[3][KRole] = RUser

\* C3: generate_response never propagates an error: it returns the fallback
\* text when the model call raises and the model's text unchanged otherwise.
C3_FallbackOnError ==
    call.some =>
        /\ ~call.val.raised
        /\ call.val.outcome.raises => call.val.value = Fallback
        /\ ~call.val.outcome.raises => call.val.value = call.val.outcome.text

\* The model call raised in the turn just run; the error was shown and the
\* run went on to append the answer.
C3_Witness ==
    /\ call.some
    /\ call.val.outcome.raises
    /\ \E i \in DOMAIN screen : screen[i].kind = "error"
    /\ "button" \in widgets

ExpectedLine(m) ==
    IF m[KRole] = RUser
    THEN <<"U", "s", "e", "r", ":", SP>> \o m[KContent]
    ELSE <<"A", "I", ":", SP>> \o m[KContent]

RECURSIVE HistoryText(_)
\* One line per message, in order, a newline between two lines.
HistoryText(ms) ==
    IF ms = <<>> THEN <<>>
    ELSE IF Len(ms) = 1 THEN ExpectedLine(ms[1])
    ELSE HistoryText(SubSeq(ms, 1, Len(ms) - 1)) \o <<NL>> \o ExpectedLine(ms[Len(ms)])

\* C4 as stated: the context passed to generate_response is the text of the
\* messages appended before the newest user message, and the question is the
\* content of the newest user message.
C4_ContextOfPriorMessages ==
    call.some /\ ~call.val.raised =>
        /\ call.val.context = HistoryText(SubSeq(Messages, 1, Len(Messages) - 2))
        /\ call.val.question = Messages[Len(Messages) - 1][KContent]

\* C4 amended: the context is the text of every message of the Session at the
\* time of the call, the newest user message included as its last line; the
\* question is the content of the newest user message.
C4_ContextOfWholeSession ==
    call.some /\ ~call.val.raised =>
        /\ call.val.context = HistoryText(SubSeq(Messages, 1, Len(Messages) - 1))
        /\ call.val.question = Messages[Len(Messages) - 1][KContent]

\* The second turn has just run: the context has three lines.
C4_Witness ==
    /\ call.some
    /\ turns = 2
    /\ Len(Messages) = 4
    /\ Messages[1][KContent] # Messages[3][KContent]

\* C8: every step leaves the Session before it a prefix of the Session after
\* it, whatever the step: a turn, a click on save, a change of view, the
\* selection of a saved transcript.
C8_AppendOnly == [][IsPrefix(Messages, Messages')]_vars

\* A saved transcript was selected and displayed while the Session holds
\* messages.
C8_Witness ==
    /\ event = "SelectChat"
    /\ view_mode = "Previous Chats"
    /\ selected_chat.some
    /\ Len(screen) > 1
    /\ Messages # <<>>

\* C9: once the click on "Save Chat History" has been handled with a Session
\* that is not empty, save_chat_history has been called with the Session and
\* a transcript file holds its messages.
C9_SaveActionWrites ==
    event = "ClickSave" /\ Messages # <<>> =>
        /\ saved # <<>>
        /\ saved[Len(saved)].chat = Messages
        /\ \E p \in DOMAIN files : files[p] = json_dumps(Messages)

Malformed(fs) ==
    \E name \in listdir(fs, CHAT_HISTORY_DIR) :
        /\ endswith(name, <<".", "j", "s", "o", "n">>)
        /\ ~json_loads(fs[path_join(CHAT_HISTORY_DIR, name)]).ok

\* C10: a run of the "Previous Chats" view on a directory with a malformed
\* transcript file ends with load_chat_histories raising: no list is
\* returned, nothing of the transcripts is shown, and the files and the
\* Session are as before.
C10_MalformedFailsWhole ==
    [][view_mode' = "Previous Chats" /\ Malformed(files) =>
          /\ histories'.some
          /\ histories'.val.raised
          /\ screen' = <<Line("exception", <<>>)>>
          /\ files' = files
          /\ Messages' = Messages]_vars

\* The load failed on the truncated transcript while the Session holds a turn.
C10_Witness ==
    /\ view_mode = "Previous Chats"
    /\ Malformed(files)
    /\ histories.some
    /\ histories.val.raised
    /\ Len(Messages) >= 2

(***************************************************************************)
(* SpecFS: the persistence methods of ChatManager called directly, on a    *)
(* directory of well-formed transcripts, while the clock advances.         *)
(***************************************************************************)
Chats ==
    {<<>>,
     <<Message(RUser, <<QUOTE, BSL, "n">>), Message(RAssistant, <<"y", "o", NL, "}">>)>>,
     <<Message(RUser, <<"h", "i">>), Message(RAssistant, Fallback)>>,
     <<Message(RUser, <<"h", "i">>), Message(RAssistant, <<>>),
       Message(RUser, <<"h", "i">>), Message(RAssistant, <<"y", "o", NL, "}">>)>>}

InitFS ==
    /\ session_state = EmptyState
    /\ view_mode = "Current Chat"
    /\ files \in {DirEmpty, DirNotes}
    /\ now = [date |-> Today, secs |-> FirstSecond]
    /\ histories = None
    /\ selected_chat = None
    /\ screen = <<>>
    /\ widgets = {}
    /\ call = None
    /\ saved = <<>>
    /\ turns = 0
    /\ event = "start"

CallSave ==
    /\ Len(saved) < MaxSaves
    /\ \E chat \in Chats :
          LET s == save_chat_history(files, now, chat)
          IN /\ files' = s.files
             /\ saved' = Append(saved, [time |-> now, chat |-> chat, ret |-> s.ret])
    /\ event' = "CallSave"
    /\ UNCHANGED <<session_state, view_mode, now, histories, selected_chat,
                   screen, widgets, call, turns>>

CallLoad ==
    /\ \E order \in Orders(listdir(files, CHAT_HISTORY_DIR)) :
          histories' = Some(load_chat_histories(files, order))
    /\ event' = "CallLoad"
    /\ UNCHANGED <<session_state, view_mode, files, now, selected_chat,
                   screen, widgets, call, saved, turns>>

Tick ==
    /\ now.secs < FirstSecond + MaxTicks
    /\ now' = [now EXCEPT !.secs = @ + 1]
    /\ event' = "Tick"
    /\ UNCHANGED <<session_state, view_mode, files, histories, selected_chat,
                   screen, widgets, call, saved, turns>>

NextFS == CallSave \/ CallLoad \/ Tick

SpecFS == InitFS /\ [][NextFS]_vars

(***************************************************************************)
(* Properties of the persistence methods (SpecFS).                         *)
(***************************************************************************)
LastSave == saved[Len(saved)]

\* No later save was made in the second of save i.
NotOverwritten(i) ==
    \A k \in DOMAIN saved : k > i => saved[k].time # saved[i].time

\* The value the last load returned has an entry named name holding chat.
Loaded(name, chat) ==
    /\ histories.some
    /\ ~histories.val.raised
    /\ \E i \in DOMAIN histories.val.value :
          /\ histories.val.value[i].filename = name
          /\ histories.val.value[i].data = chat

\* C2 as stated: a load right after a save returns an entry under the
\* filename that save returned, holding the saved messages in order.
C2_EntryUnderReturnedName ==
    [][event = "CallSave" /\ event' = "CallLoad" =>
          /\ histories'.some
          /\ ~histories'.val.raised
          /\ \E i \in DOMAIN histories'.val.value :
                /\ histories'.val.value[i].filename = LastSave.ret
                /\ histories'.val.value[i].data = LastSave.chat]_vars

\* C2 amended: a load right after a save returns an entry whose filename is
\* the last component of the path that save returned (the path is the
\* directory joined with that filename), holding the saved messages: same
\* length, same role and content for every message, same order.
C2_RoundTrip ==
    [][event = "CallSave" /\ event' = "CallLoad" =>
          /\ histories'.some
          /\ ~histories'.val.raised
          /\ \E i \in DOMAIN histories'.val.value :
                /\ path_join(CHAT_HISTORY_DIR, histories'.val.value[i].filename)
                       = LastSave.ret
                /\ histories'.val.value[i].data = LastSave.chat]_vars

\* A load has just returned the chat with a quote, a backslash and a newline
\* that the save before it wrote.
C2_Witness ==
    /\ event = "CallLoad"
    /\ saved # <<>>
    /\ Len(LastSave.chat) = 2
    /\ LastSave.chat[1][KContent] = <<QUOTE, BSL, "n">>
    /\ \E name \in listdir(files, CHAT_HISTORY_DIR) :
          /\ path_join(CHAT_HISTORY_DIR, name) = LastSave.ret
          /\ Loaded(name, LastSave.chat)

SavedPaths == {saved[i].ret : i \in DOMAIN saved}
SavedTimes == {saved[i].time : i \in DOMAIN saved}

\* C5 as stated: as many transcript files were created as saves were made,
\* and every file still holds what its save wrote.
C5_OneFilePerSave ==
    /\ SavedPaths \subseteq DOMAIN files
    /\ Cardinality(SavedPaths) = Len(saved)
    /\ \A i \in DOMAIN saved : json_loads(files[saved[i].ret]).val = saved[i].chat

\* C5 amended: there is one transcript file per timestamp (to the second) at
\* which a save was made; a file holds what the last save with its timestamp
\* wrote, so a later save changes it only when made in the same second.
C5_OneFilePerSecond ==
    /\ SavedPaths \subseteq DOMAIN files
    /\ Cardinality(SavedPaths) = Cardinality(SavedTimes)
    /\ \A i \in DOMAIN saved :
          (\A k \in DOMAIN saved : k > i => saved[k].time # saved[i].time)
              => json_loads(files[saved[i].ret]).val = saved[i].chat
    /\ \A i, j \in DOMAIN saved :
          saved[i].time = saved[j].time <=> saved[i].ret = saved[j].ret

\* Two different chats were saved in the same second and the clock has moved.
C5_Witness ==
    /\ Len(saved) >= 2
    /\ saved[1].time = saved[2].time
    /\ saved[1].chat # saved[2].chat
    /\ now # saved[2].time

\* C6: two different non-empty sessions saved at timestamps at least one
\* second apart are in two distinct files, and a load made after them
\* returns both, each with the messages saved into it.
C6_DistinctFiles ==
    \A i, j \in DOMAIN saved :
        /\ i < j
        /\ saved[i].chat # <<>>
        /\ saved[j].chat # <<>>
        /\ saved[i].chat # saved[j].chat
        /\ saved[j].time.secs - saved[i].time.secs >= 1
        /\ NotOverwritten(i)
        /\ NotOverwritten(j)
        => /\ saved[i].ret # saved[j].ret
           /\ {saved[i].ret, saved[j].ret} \subseteq DOMAIN files
           /\ event = "CallLoad" =>
                 \E m, n \in listdir(files, CHAT_HISTORY_DIR) :
                    /\ m # n
                    /\ path_join(CHAT_HISTORY_DIR, m) = saved[i].ret
                    /\ path_join(CHAT_HISTORY_DIR, n) = saved[j].ret
                    /\ Loaded(m, saved[i].chat)
                    /\ Loaded(n, saved[j].chat)

\* Two different non-empty chats were saved a second or more apart and a load
\* has just returned.
C6_Witness ==
    /\ event = "CallLoad"
    /\ Len(saved) >= 2
    /\ saved[1].chat # <<>>
    /\ saved[2].chat # <<>>
    /\ saved[1].chat # saved[2].chat
    /\ saved[2].time.secs - saved[1].time.secs >= 1
    /\ histories.some
    /\ ~histories.val.raised

TranscriptNames(fs) ==
    {name \in listdir(fs, CHAT_HISTORY_DIR) :
        endswith(name, <<".", "j", "s", "o", "n">>)}

\* The times of the saves that wrote the file called name.
SaveSecs(name) ==
    {saved[i].time.secs :
        i \in {k \in DOMAIN saved : saved[k].ret = path_join(CHAT_HISTORY_DIR, name)}}

====
